---- MODULE Spec2Model ----
(***************************************************************************)
(* Model of the TensorFlow Reshape extractor of the model optimizer,       *)
(* mo/front/tf/extractors/reshape.py.                                      *)
(*                                                                         *)
(* tf_reshape_ext(pb) returns the attribute mapping {'type', 'infer'}.     *)
(* The 'infer' callable is invoked later by the propagation pass on a node *)
(* and delegates to single_output_infer with the reshape shape function    *)
(* and a value function built on np.reshape.                               *)
(*                                                                         *)
(* single_output_infer and tf_reshape_shape_infer live in                  *)
(* mo/front/common/partial_infer, outside the extractor file; they are     *)
(* modelled from their documented contract.  np.reshape is modelled by     *)
(* what numpy does on an array made of a shape, a memory order and a       *)
(* buffer.                                                                 *)
(***************************************************************************)
EXTENDS Integers, Sequences, FiniteSets, TLC

\* ------------------------------------------------------------------ bounds
MaxRank == 2          \* longest input shape / target shape enumerated
MaxDim == 2           \* largest input dimension enumerated
MaxTargetDim == 4     \* largest positive entry of an enumerated target shape

\* ------------------------------------------------------- optional values
\* Python's None against a present value: a sequence of length 0 or 1.
None == << >>
Some(x) == << x >>

\* ------------------------------------------------------------ arithmetic
RECURSIVE Prod(_)
Prod(s) == IF Len(s) = 0 THEN 1 ELSE Head(s) * Prod(Tail(s))

RECURSIVE Sum(_)
Sum(s) == IF Len(s) = 0 THEN 0 ELSE Head(s) + Sum(Tail(s))

Count(s, x) == Cardinality({k \in 1..Len(s) : s[k] = x})

\* -------------------------------------------------------- numpy ndarray
\* An ndarray is [shape, order, buf]: order "C" is row-major memory, order
\* "F" column-major memory (e.g. a transposed view).

\* Memory offset of the element at multi-index idx (0-based entries).
Offset(idx, shape, order) ==
    IF order = "C"
    THEN Sum([k \in 1..Len(shape) |->
                 idx[k] * Prod(SubSeq(shape, k + 1, Len(shape)))])
    ELSE Sum([k \in 1..Len(shape) |->
                 idx[k] * Prod(SubSeq(shape, 1, k - 1))])

\* Multi-index of the i-th element (0-based) in C iteration order.
UnravelC(i, shape) ==
    [k \in 1..Len(shape) |->
        (i \div Prod(SubSeq(shape, k + 1, Len(shape)))) % shape[k]]

\* Multi-index of the i-th element (0-based) in Fortran iteration order.
UnravelF(i, shape) ==
    [k \in 1..Len(shape) |->
        (i \div Prod(SubSeq(shape, 1, k - 1))) % shape[k]]

At(a, idx) == a.buf[Offset(idx, a.shape, a.order) + 1]

\* a.ravel(order='C'): the elements in C iteration order.
ravel(a) == [i \in 1..Prod(a.shape) |-> At(a, UnravelC(i - 1, a.shape))]

\* a.ravel(order='F'): the elements in Fortran iteration order.
ravelF(a) == [i \in 1..Prod(a.shape) |-> At(a, UnravelF(i - 1, a.shape))]

Ok(v) == [err |-> "none", val |-> v]
Fail(e) == [err |-> e, val |-> None]

\* Product of the entries of a shape argument other than -1.
KnownProd(s) == Prod([k \in 1..Len(s) |-> IF s[k] = -1 THEN 1 ELSE s[k]])

\* np.reshape(a, newshape), order='C'.  newshape is an optional shape.  One
\* -1 is inferred from the size; a size mismatch raises ValueError.
np_reshape(a, newshape) ==
    IF newshape = None THEN Fail("reinterpretation")
    ELSE LET s == newshape[1]
             size == Prod(a.shape)
             known == KnownProd(s)
         IN  IF Count(s, -1) > 1 THEN Fail("reinterpretation")
             ELSE IF Count(s, -1) = 1
             THEN IF known = 0 \/ size % known # 0
                  THEN Fail("reinterpretation")
                  ELSE Ok(Some([shape |-> [k \in 1..Len(s) |->
                                     IF s[k] = -1 THEN size \div known ELSE s[k]],
                                order |-> "C",
                                buf |-> ravel(a)]))
             ELSE IF Prod(s) # size THEN Fail("reinterpretation")
             ELSE Ok(Some([shape |-> s, order |-> "C", buf |-> ravel(a)]))

\* np.resize(a, new_shape): repeats or truncates the data, never fails.
np_resize(a, newshape) ==
    LET s == newshape[1]
        flat == ravel(a)
    IN  Ok(Some([shape |-> s, order |-> "C",
                 buf |-> [i \in 1..Prod(s) |-> flat[((i - 1) % Len(flat)) + 1]]]))

\* np.reshape(a, newshape, order='F').
np_reshape_F(a, newshape) ==
    IF newshape = None \/ Prod(newshape[1]) # Prod(a.shape)
    THEN Fail("reinterpretation")
    ELSE Ok(Some([shape |-> newshape[1], order |-> "F", buf |-> ravelF(a)]))

\* ------------------------------------------------- reshape shape function
\* Resolves the target shape argument n.dim against the input shape: 0
\* copies the input dimension at the same index, a single -1 is inferred
\* from the input element count.
tf_reshape_shape_infer(n) ==
    LET s == n.dim
        inp == n.in_shape
        total == Prod(inp)
    IN  IF Count(s, -1) > 1 THEN Fail("shape_resolution")
        ELSE IF \E k \in 1..Len(s) : s[k] = 0 /\ k > Len(inp)
        THEN Fail("shape_resolution")
        ELSE LET copied == [k \in 1..Len(s) |->
                               IF s[k] = 0 THEN inp[k] ELSE s[k]]
                 known == KnownProd(copied)
             IN  IF Count(s, -1) = 1
                 THEN IF known = 0 \/ total % known # 0
                      THEN Fail("shape_resolution")
                      ELSE Ok([k \in 1..Len(s) |->
                                  IF copied[k] = -1 THEN total \div known
                                  ELSE copied[k]])
                 ELSE Ok(copied)

\* ------------------------------------------------------- the extractor
\* Variants of the value function.
value_infer_F(n) ==
    IF n.in_value # None THEN np_reshape_F(n.in_value[1], n.out_shape)
    ELSE Ok(None)

value_infer_noguard(n) ==
    IF n.in_value # None THEN np_reshape(n.in_value[1], n.out_shape)
    ELSE Ok(Some([shape |-> n.out_shape[1], order |-> "C",
                  buf |-> [i \in 1..Prod(n.out_shape[1]) |-> 0]]))

value_infer_resize(n) ==
    IF n.in_value # None THEN np_resize(n.in_value[1], n.out_shape)
    ELSE Ok(None)

value_infer_rawbuf(n) ==
    IF n.in_value # None
    THEN IF Prod(n.out_shape[1]) # Prod(n.in_value[1].shape)
         THEN Fail("reinterpretation")
         ELSE Ok(Some([shape |-> n.out_shape[1], order |-> "C",
                       buf |-> n.in_value[1].buf]))
    ELSE Ok(None)

value_infer_in_shape(n) ==
    IF n.in_value # None THEN np_reshape(n.in_value[1], Some(n.in_shape))
    ELSE Ok(None)

\* lambda node: np.reshape(node.in_node().value, node.out_node().shape)
\*              if node.in_node().value is not None else None
value_infer(n) ==
    IF n.in_value # None THEN np_reshape(n.in_value[1], n.out_shape)
    ELSE Ok(None)

\* A shape function that returns the shape argument unresolved.
copy_dim_shape_infer(n) == Ok(n.dim)

\* Calling a function object f on a node; function objects are
\* represented by their names.
call(f, n) ==
    CASE f = "tf_reshape_shape_infer" -> tf_reshape_shape_infer(n)
      [] f = "copy_dim_shape_infer" -> copy_dim_shape_infer(n)
      [] f = "value_infer" -> value_infer(n)

\* ---------------------------------------------------- single_output_infer
\* Writes shape_infer(node) on the output, then value_infer(node) on the
\* output.  An exception of either function propagates; what was written
\* before it stays written.
single_output_infer(n, shape_infer, value_infer_fn) ==
    LET s == call(shape_infer, n)
    IN  IF s.err # "none" THEN [node |-> n, err |-> s.err]
        ELSE LET n1 == [n EXCEPT !.out_shape = Some(s.val)]
                 v == call(value_infer_fn, n1)
             IN  IF v.err # "none" THEN [node |-> n1, err |-> v.err]
                 ELSE [node |-> [n1 EXCEPT !.out_value = v.val],
                       err |-> "none"]

\* Variants of the infer callable.
infer_copy_dim(n) == single_output_infer(n, "copy_dim_shape_infer", "value_infer")

infer_inplace(n) ==
    LET r == single_output_infer(n, "tf_reshape_shape_infer", "value_infer")
    IN  IF r.err = "none" /\ r.node.out_value # None
        THEN [r EXCEPT !.node.in_shape = r.node.out_shape[1],
                       !.node.in_value = r.node.out_value]
        ELSE r

\* lambda node: single_output_infer(node, tf_reshape_shape_infer, <value>)
infer(n) == single_output_infer(n, "tf_reshape_shape_infer", "value_infer")

\* The callable stored under 'infer' is represented by its name.
InferCallable == "infer"

tf_reshape_ext_from_pb(pb) == [type |-> pb.op, infer |-> InferCallable]

tf_reshape_ext(pb) == [type |-> "Reshape", infer |-> InferCallable]

\* ------------------------------------------------------------- inputs
Shapes(maxlen, entries) == UNION {[1..l -> entries] : l \in 0..maxlen}

InShapes == Shapes(MaxRank, 1..MaxDim) \cup {<<2, 3, 4>>}

TargetShapes ==
    Shapes(MaxRank, {-1, 0} \cup 1..MaxTargetDim) \cup {<<6, 4>>}

\* A known input value of shape s: distinct elements, either memory order.
Arrays(s) == {[shape |-> s, order |-> o, buf |-> [i \in 1..Prod(s) |-> i]] :
                 o \in {"C", "F"}}

PbSet == {[kind |-> "absent", op |-> "None"],
          [kind |-> "malformed", op |-> "?"],
          [kind |-> "NodeDef", op |-> "Reshape"],
          [kind |-> "NodeDef", op |-> "Squeeze"]}

NoAttrs == [k \in {} |-> None]

\* -------------------------------------------------------------- state
VARIABLES pc, pb, attrs, node, err

vars == <<pc, pb, attrs, node, err>>

Init ==
    /\ pc = "loaded"
    /\ pb \in PbSet
    /\ attrs = NoAttrs
    /\ err = "none"
    /\ \E s \in InShapes, d \in TargetShapes :
         \E v \in {None} \cup {Some(a) : a \in Arrays(s)} :
            node = [in_shape |-> s, in_value |-> v, dim |-> d,
                    out_shape |-> None, out_value |-> None]

\* The extractor dispatch calls tf_reshape_ext(pb) and attaches the result.
Extract ==
    /\ pc = "loaded"
    /\ attrs' = tf_reshape_ext(pb)
    /\ pc' = "extracted"
    /\ UNCHANGED <<pb, node, err>>

\* The propagation pass calls node.infer(node), once.
Infer ==
    /\ pc = "extracted"
    /\ attrs.infer = InferCallable
    /\ LET r == infer(node)
       IN  /\ node' = r.node
           /\ err' = r.err
           /\ pc' = IF r.err = "none" THEN "done" ELSE "failed"
    /\ UNCHANGED <<pb, attrs>>

Next == Extract \/ Infer

Spec == Init /\ [][Next]_vars

\* ------------------------------------------------- vocabulary of the claims
Ended == pc \in {"done", "failed"}

ValueKnown == node.in_value # None

InSize == Prod(node.in_shape)

\* Every 0 of the target has an input dimension at the same index.
ZerosInRange ==
    \A k \in 1..Len(node.dim) : node.dim[k] = 0 => k <= Len(node.in_shape)

\* Target entry k with a 0 replaced by the input dimension.
Copied(k) == IF node.dim[k] = 0 THEN node.in_shape[k] ELSE node.dim[k]

\* Product of the known dimensions of the target (all but the -1).
OtherProd ==
    Prod([k \in 1..Len(node.dim) |->
             IF node.dim[k] = -1 THEN 1 ELSE Copied(k)])

\* At most one -1, every other entry positive or a 0 with an input
\* dimension to copy, and the -1 (if any) has an integer solution.
ValidTarget ==
    /\ Count(node.dim, -1) <= 1
    /\ ZerosInRange
    /\ Count(node.dim, -1) = 1 => InSize % OtherProd = 0

ResolvedShape ==
    [k \in 1..Len(node.dim) |->
        IF node.dim[k] = -1 THEN InSize \div OtherProd ELSE Copied(k)]

\* Valid target whose resolved element count is that of the input.
CountsMatch == ValidTarget /\ Prod(ResolvedShape) = InSize

\* C1: for every raw descriptor pb, absent or malformed included,
\* tf_reshape_ext(pb) returns, without error, a mapping whose keys are
\* exactly 'type' and 'infer', with 'type' the string "Reshape" and 'infer'
\* the infer callable; the mapping is the same whatever pb is.
C1_ExtractorMapping ==
    /\ pc = "loaded" => ENABLED Extract
    /\ pc # "loaded" =>
         /\ DOMAIN attrs = {"type", "infer"}
         /\ attrs.type = "Reshape"
         /\ attrs.infer = InferCallable

C1_Witness ==
    /\ pc = "extracted"
    /\ pb.kind = "malformed"
    /\ DOMAIN attrs = {"type", "infer"}

\* C2: after infer on a node with a known input value a and a valid target
\* whose resolved element count equals that of a, infer has succeeded, the
\* output value has the resolved shape and its elements in flattened
\* (row-major) order are those of a in flattened order.
C2_ReshapePreservesFlatOrder ==
    (Ended /\ ValueKnown /\ CountsMatch) =>
        /\ pc = "done"
        /\ node.out_value # None
        /\ node.out_value[1].shape = ResolvedShape
        /\ \A i \in 0..(InSize - 1) :
              At(node.out_value[1], UnravelC(i, ResolvedShape))
                = At(node.in_value[1], UnravelC(i, node.in_shape))

C2_Witness ==
    /\ pc = "done"
    /\ ValueKnown
    /\ node.in_value[1].order = "F"
    /\ node.in_shape = <<2, 2>>
    /\ node.dim = <<-1>>
    /\ node.out_value # None
    /\ node.out_value[1].buf = <<1, 3, 2, 4>>

\* C3: when the input value is unknown, no output value is ever recorded,
\* and for a valid target with matching element count infer completes with
\* the output shape set to the resolved target shape; target [6,4] on a
\* 24-element input gives output shape [6,4].
C3_UnknownValueShapeOnly ==
    (~ValueKnown) =>
        /\ node.out_value = None
        /\ (Ended /\ CountsMatch) =>
              /\ pc = "done"
              /\ node.out_shape = Some(ResolvedShape)
        /\ (Ended /\ node.dim = <<6, 4>> /\ InSize = 24) =>
              node.out_shape = Some(<<6, 4>>)

C3_Witness ==
    /\ pc = "done"
    /\ ~ValueKnown
    /\ node.in_shape = <<2, 3, 4>>
    /\ node.dim = <<6, 4>>
    /\ node.out_shape = Some(<<6, 4>>)
    /\ node.out_value = None

\* The target has neither a 0 nor a -1 and its product differs from the
\* input element count.
PlainMismatch ==
    /\ Count(node.dim, 0) = 0
    /\ Count(node.dim, -1) = 0
    /\ Prod(node.dim) # InSize

\* C4: with a known input value and a target without 0 and -1 whose
\* product differs from the input element count, infer ends in failure with
\* an error and no output value is recorded on the node.
C4_PlainMismatchFails ==
    (Ended /\ ValueKnown /\ PlainMismatch) =>
        /\ pc = "failed"
        /\ err # "none"
        /\ node.out_value = None

C4_Witness ==
    /\ pc = "failed"
    /\ err = "reinterpretation"
    /\ ValueKnown
    /\ node.in_shape = <<2, 2>>
    /\ node.dim = <<3, 1>>
    /\ node.out_value = None

\* C5: with exactly one -1 in the target and an input element count that
\* the product of the other dimensions does not divide, shape resolution
\* fails: infer never completes and no output shape is written.
C5_IndivisibleFails ==
    (Ended /\ Count(node.dim, -1) = 1 /\ ZerosInRange
           /\ InSize % OtherProd # 0) =>
        /\ pc = "failed"
        /\ err = "shape_resolution"
        /\ node.out_shape = None

C5_Witness ==
    /\ pc = "failed"
    /\ err = "shape_resolution"
    /\ node.in_shape = <<2, 2>>
    /\ node.dim = <<3, -1>>
    /\ node.out_shape = None

\* C6: with more than one -1 in the target (e.g. [-1,-1]) infer ends in
\* failure with a shape-resolution error and neither an output shape nor an
\* output value is written.
C6_AmbiguousFails ==
    (Ended /\ Count(node.dim, -1) > 1) =>
        /\ pc = "failed"
        /\ err = "shape_resolution"
        /\ node.out_shape = None
        /\ node.out_value = None

C6_Witness ==
    /\ pc = "failed"
    /\ err = "shape_resolution"
    /\ node.dim = <<-1, -1>>
    /\ node.out_shape = None
    /\ node.out_value = None

\* C7: for every input shape and valid target, the output shape written by
\* infer is the target with each 0 replaced by the input dimension at the
\* same index and the -1 replaced by the value that makes the product the
\* input element count; its entries are non-negative; input [2,3,4] with
\* target [0,-1] gives [2,12].
C7_ResolvedOutputShape ==
    (Ended /\ ValidTarget) =>
        /\ node.out_shape # None
        /\ Len(node.out_shape[1]) = Len(node.dim)
        /\ \A k \in 1..Len(node.dim) :
              /\ node.out_shape[1][k] >= 0
              /\ node.dim[k] = 0 => node.out_shape[1][k] = node.in_shape[k]
              /\ node.dim[k] > 0 => node.out_shape[1][k] = node.dim[k]
              /\ node.dim[k] = -1 => Prod(node.out_shape[1]) = InSize
        /\ (node.in_shape = <<2, 3, 4>> /\ node.dim = <<0, -1>>) =>
              node.out_shape = Some(<<2, 12>>)

C7_Witness ==
    /\ pc = "done"
    /\ node.in_shape = <<2, 3, 4>>
    /\ node.dim = <<0, -1>>
    /\ node.out_shape = Some(<<2, 12>>)

\* The multi-indices of a shape.
Indices(shape) ==
    {idx \in [1..Len(shape) -> 0..Sum(shape)] :
        \A k \in 1..Len(shape) : idx[k] < shape[k]}

\* C8: with a known input value a and a target equal to a's own shape,
\* infer succeeds and the output value equals a: same shape, and the same
\* element at every index.
C8_ReshapeToOwnShape ==
    (Ended /\ ValueKnown /\ node.dim = node.in_shape) =>
        /\ pc = "done"
        /\ node.out_value # None
        /\ node.out_value[1].shape = node.in_value[1].shape
        /\ \A idx \in Indices(node.in_shape) :
              At(node.out_value[1], idx) = At(node.in_value[1], idx)

C8_Witness ==
    /\ pc = "done"
    /\ ValueKnown
    /\ node.in_value[1].order = "F"
    /\ node.in_shape = <<2, 2>>
    /\ node.dim = <<2, 2>>
    /\ node.out_value # None
    /\ node.out_value[1].buf = <<1, 3, 2, 4>>

\* C9: calling tf_reshape_ext changes no node, and infer leaves the input
\* shape, the input value and the shape argument as they were: the output
\* shape and the output value are the only node locations it writes.
C9_OnlyOutputWritten ==
    [][/\ node'.in_shape = node.in_shape
       /\ node'.in_value = node.in_value
       /\ node'.dim = node.dim
       /\ pc = "loaded" => node' = node]_vars

C9_Witness ==
    /\ pc = "done"
    /\ ValueKnown
    /\ node.dim # node.in_shape
    /\ node.out_shape # None
    /\ node.out_value # None
    /\ node.out_value[1].shape # node.in_shape

\* C10: the value function reshapes to the shape stored on the node's
\* output: whenever an output value is stored its shape is the output shape
\* stored on the node, and when the reshape itself fails the output shape
\* is already on the node.
C10_ValueShapeIsStoredShape ==
    /\ node.out_value # None =>
          /\ node.out_shape # None
          /\ node.out_value[1].shape = node.out_shape[1]
    /\ (pc = "failed" /\ err = "reinterpretation") => node.out_shape # None
    /\ (Ended /\ ValueKnown /\ CountsMatch) => node.out_value # None

C10_Witness ==
    /\ pc = "done"
    /\ node.in_shape = <<2, 2>>
    /\ ValueKnown
    /\ node.dim = <<1, -1>>
    /\ node.out_shape = Some(<<1, 4>>)
    /\ node.out_value # None
    /\ node.out_value[1].shape = <<1, 4>>

====
